---- MODULE Spec2Model ----
(***************************************************************************)
(* certmaestro: the backend contract (backends/interfaces.py), the OpenSSL *)
(* driver (backends/openssl/__init__.py), its config parser                *)
(* (backends/openssl/parser.py) and the Vault driver (backends/vault.py).  *)
(*                                                                         *)
(* Text (str) is a sequence of one-character strings; indices into text    *)
(* are Python's 0-based indices.  Bytes are sequences of byte symbols.     *)
(***************************************************************************)
EXTENDS Integers, Sequences, FiniteSets, TLC

VARIABLES
    backend,    \* the driver instance the caller holds, or NoInstance
    result,     \* outcome of the last call: returned value or raised exception
    env,        \* OpenSSL driver: the file-system facts its constructor tests
    cnf,        \* OpenSSL driver: the parsed openssl.cnf (self._cnf)
    files,      \* OpenSSL driver: path -> text of the files under root_dir
    runs,       \* OpenSSL driver: subprocess runs made by the last call
    issued,     \* OpenSSL driver: hex serials of the successful issue_cert calls
    args,       \* Vault driver: constructor arguments (url, mount_point)
    remote,     \* Vault server: the set of mounted secret backends ("name/")
    requests,   \* Vault driver: HTTP requests made by the last call
    value,      \* parser: raw option value handed to before_get
    defaults,   \* parser: the mapping before_get resolves references against
    pending,    \* calls in flight: where each is and its local variables
    gen         \* OpenSSL driver: the generator get_cert_list() returned

vars == <<backend, result, env, cnf, files, runs, issued,
          args, remote, requests, value, defaults, pending, gen>>

(***************************************************************************)
(* Bounds                                                                  *)
(***************************************************************************)
MaxValueLen == 4

MaxIssue == 2

(***************************************************************************)
(* Python text helpers                                                     *)
(***************************************************************************)
\* s[i:] for i >= 0
SliceFrom(s, i) == SubSeq(s, i + 1, Len(s))

\* s[:j] for j >= 0
SliceTo(s, j) == SubSeq(s, 1, IF j > Len(s) THEN Len(s) ELSE j)

StartsWith(s, p) == Len(s) >= Len(p) /\ SubSeq(s, 1, Len(p)) = p

EndsWith(s, p) == Len(s) >= Len(p) /\ SubSeq(s, Len(s) - Len(p) + 1, Len(s)) = p

\* str.find: lowest 0-based index where sub occurs in s, -1 when it does not
Find(s, sub) ==
    LET hits == {i \in 0..(Len(s) - Len(sub)) : SubSeq(s, i + 1, i + Len(sub)) = sub}
    IN IF hits = {} THEN -1 ELSE CHOOSE i \in hits : \A j \in hits : i <= j

UpperSeq == <<"A", "B", "C", "D", "E", "F", "G", "H", "I", "J", "K", "L", "M",
              "N", "O", "P", "Q", "R", "S", "T", "U", "V", "W", "X", "Y", "Z">>

LowerSeq == <<"a", "b", "c", "d", "e", "f", "g", "h", "i", "j", "k", "l", "m",
              "n", "o", "p", "q", "r", "s", "t", "u", "v", "w", "x", "y", "z">>

Range(s) == {s[i] : i \in DOMAIN s}

UpperLetters == Range(UpperSeq)

LowerChar(c) == IF c \in UpperLetters
                THEN LowerSeq[CHOOSE i \in DOMAIN UpperSeq : UpperSeq[i] = c]
                ELSE c

UpperChar(c) == IF c \in Range(LowerSeq)
                THEN UpperSeq[CHOOSE i \in DOMAIN LowerSeq : LowerSeq[i] = c]
                ELSE c

\* str.lower
Lower(s) == [i \in 1..Len(s) |-> LowerChar(s[i])]

\* str.upper
Upper(s) == [i \in 1..Len(s) |-> UpperChar(s[i])]

Digits == {"0", "1", "2", "3", "4", "5", "6", "7", "8", "9"}

\* the characters the regex class \w matches, among those the model uses
WordChars == Range(LowerSeq) \cup UpperLetters \cup Digits \cup {"_"}

(***************************************************************************)
(* Call outcomes                                                           *)
(***************************************************************************)
NoResult == [op |-> "none", status |-> "none"]

\* a call returns v
Ok(v) == [status |-> "ok", value |-> v]

\* a call raises exc(detail)
Raise(exc, detail) == [status |-> "raised", exc |-> exc, detail |-> detail]

\* what the caller of operation op observes
Call(op, out) == ("op" :> op) @@ out

Returned(op, v) == Call(op, Ok(v))

Raised(op, exc, detail) == Call(op, Raise(exc, detail))

NoInstance == [driver |-> "none"]

\* Body applied to the value of e: e is evaluated once, before Body
With(e, Body(_)) == CHOOSE y \in {Body(x) : x \in {e}} : TRUE

\* Body applied to what e returned; the exception e raised propagates
Try(e, Body(_)) ==
    CHOOSE y \in {IF x.status = "raised" THEN x ELSE Body(x.value) : x \in {e}} : TRUE

(***************************************************************************)
(* parser.py: OpenSSLInterpolation                                         *)
(***************************************************************************)
\* length of the longest run of \w characters at the start of t
RECURSIVE WordRun(_)
WordRun(t) == IF t # <<>> /\ t[1] \in WordChars THEN 1 + WordRun(Tail(t)) ELSE 0

NoMatch == [matched |-> FALSE]

\* _KEYCRE.match(t) for _KEYCRE = \$\{?(\w*)\}? : None, or group(1) and end()
KEYCRE_match(t) ==
    IF t = <<>> \/ t[1] # "$" THEN NoMatch
    ELSE LET open  == IF Len(t) >= 2 /\ t[2] = "{" THEN 1 ELSE 0
             n     == WordRun(SliceFrom(t, 1 + open))
             stop  == 1 + open + n
             close == IF Len(t) > stop /\ t[stop + 1] = "}" THEN 1 ELSE 0
         IN [matched |-> TRUE,
             group1  |-> SubSeq(t, 2 + open, stop),
             end     |-> stop + close]

\* ConfigParser.optionxform
optionxform(name) == Lower(name)

before_get(v, dflt) ==
    With(Find(v, <<"$">>), LAMBDA ind :
      IF ind = -1 THEN Ok(v)
      ELSE With(KEYCRE_match(SliceFrom(v, ind)), LAMBDA m :
        IF ~m.matched
        THEN Raise("InterpolationSyntaxError",
                   "bad interpolation variable reference {value}")
        ELSE With(optionxform(m.group1), LAMBDA var :
          IF var \notin DOMAIN dflt
          THEN Raise("InterpolationMissingOptionError", var)
          ELSE Ok(dflt[var] \o SliceFrom(v, m.end)))))

ValueChars == {"$", "{", "}", "d", "D", "/"}

RECURSIVE TextsUpTo(_, _)
TextsUpTo(chars, n) ==
    IF n = 0 THEN {<<>>}
    ELSE LET shorter == TextsUpTo(chars, n - 1)
         IN shorter \cup {Append(s, c) : s \in shorter, c \in chars}

NoDefaults == [n \in {} |-> <<>>]

DefaultsChoices ==
    { NoDefaults,
      [n \in {<<"d">>} |-> <<"/", "r">>],
      [n \in {<<"d">>, <<"d", "d">>} |-> IF n = <<"d">> THEN <<"/", "r">> ELSE <<"x">>] }

InitParser ==
    /\ value \in TextsUpTo(ValueChars, MaxValueLen)
    /\ defaults \in DefaultsChoices
    /\ backend = NoInstance
    /\ result = NoResult
    /\ env = <<>> /\ cnf = <<>> /\ files = <<>> /\ runs = <<>> /\ issued = {}
    /\ args = <<>> /\ remote = <<>> /\ requests = <<>>
    /\ pending = <<>> /\ gen = <<>>

\* option lookup: the interpolation applied to the raw value
BeforeGet ==
    /\ backend = NoInstance /\ result = NoResult
    /\ value \in TextsUpTo(ValueChars, MaxValueLen)
    /\ result' = Call("before_get", before_get(value, defaults))
    /\ UNCHANGED <<backend, env, cnf, files, runs, issued,
                   args, remote, requests, value, defaults, pending, gen>>

NextParser == BeforeGet

SpecParser == InitParser /\ [][NextParser]_vars

(***************************************************************************)
(* Keys and literals of the OpenSSL driver, spelled as text                *)
(***************************************************************************)
k_ca == <<"c", "a">>

k_default_ca == <<"d", "e", "f", "a", "u", "l", "t", "_", "c", "a">>

k_dir == <<"d", "i", "r">>

k_certs == <<"c", "e", "r", "t", "s">>

k_new_certs_dir == <<"n", "e", "w", "_", "c", "e", "r", "t", "s", "_", "d", "i", "r">>

k_policy == <<"p", "o", "l", "i", "c", "y">>

k_commonName == <<"c", "o", "m", "m", "o", "n", "N", "a", "m", "e">>

k_countryName == <<"c", "o", "u", "n", "t", "r", "y", "N", "a", "m", "e">>

k_stateOrProvinceName == <<"s", "t", "a", "t", "e", "O", "r", "P", "r", "o", "v", "i", "n", "c", "e", "N", "a", "m", "e">>

k_localityName == <<"l", "o", "c", "a", "l", "i", "t", "y", "N", "a", "m", "e">>

k_organizationName == <<"o", "r", "g", "a", "n", "i", "z", "a", "t", "i", "o", "n", "N", "a", "m", "e">>

k_organizationalUnitName == <<"o", "r", "g", "a", "n", "i", "z", "a", "t", "i", "o", "n", "a", "l", "U", "n", "i", "t", "N", "a", "m", "e">>

k_emailAddress == <<"e", "m", "a", "i", "l", "A", "d", "d", "r", "e", "s", "s">>

t_supplied == <<"s", "u", "p", "p", "l", "i", "e", "d">>

t_match == <<"m", "a", "t", "c", "h">>

t_optional == <<"o", "p", "t", "i", "o", "n", "a", "l">>

t_certs == <<"c", "e", "r", "t", "s">>

t_pem == <<".", "p", "e", "m">>

t_key == <<".", "k", "e", "y">>

(***************************************************************************)
(* The configuration documents and the world the OpenSSL driver runs in    *)
(***************************************************************************)
root_dir == <<"/", "r">>

sec_CA == <<"C", "A">>

sec_pol == <<"p", "o", "l">>

\* a policy section naming all seven fields (openssl.cnf's policy_anything),
\* keys as the parser stores them (optionxform applied)
AnythingPolicy ==
    (Lower(k_commonName) :> t_supplied)
    @@ (Lower(k_countryName) :> t_optional)
    @@ (Lower(k_stateOrProvinceName) :> t_optional)
    @@ (Lower(k_localityName) :> t_optional)
    @@ (Lower(k_organizationName) :> t_optional)
    @@ (Lower(k_organizationalUnitName) :> t_optional)
    @@ (Lower(k_emailAddress) :> t_optional)

\* [ CA ] without its certs key: dir = d, new_certs_dir = $dir/n, policy = pol
CaSectionBase ==
    (k_dir :> <<"d">>)
    @@ (k_new_certs_dir :> <<"$", "d", "i", "r", "/", "n">>)
    @@ (k_policy :> sec_pol)

\* the values the certs key takes: a directory of its own, the new_certs_dir
\* directory, a directory inside new_certs_dir, the empty value
CertsValues == { <<"$", "d", "i", "r", "/", "c">>,
                 <<"$", "d", "i", "r", "/", "n">>,
                 <<"$", "d", "i", "r", "/", "n", "/", "c">>,
                 <<>> }

CaSections == {CaSectionBase} \cup {(k_certs :> v) @@ CaSectionBase : v \in CertsValues}

\* a parsed document: section name -> (option name -> raw value)
Document(caSection, policySection) ==
    (k_ca :> (k_default_ca :> sec_CA))
    @@ (sec_CA :> caSection)
    @@ (sec_pol :> policySection)

Documents == {Document(s, AnythingPolicy) : s \in CaSections}

\* what the constructor can find at its four paths
Environments ==
    { [commandIsFile |-> cf, commandExec |-> cx, rootIsDir |-> rd, rootRWX |-> rp,
       config |-> cs, document |-> doc, crlIsFile |-> cr] :
        cf \in BOOLEAN, cx \in BOOLEAN, rd \in BOOLEAN, rp \in BOOLEAN,
        cs \in {"missing", "unreadable", "malformed", "ok"},
        doc \in Documents, cr \in BOOLEAN }

(***************************************************************************)
(* openssl/__init__.py: OpenSSLBackend                                     *)
(***************************************************************************)
Failed(msg, attrs) == [out |-> Raise("BackendError", msg), self |-> attrs]

\* OpenSSLBackend.__init__ with the CRL path tested before the config path
OpenSSLBackend_init_crl_first(e) ==
    IF ~e.commandIsFile
    THEN Failed("OpenSSL command not found", {})
    ELSE IF ~e.commandExec
    THEN Failed("OpenSSL command is not executable", {})
    ELSE IF ~e.rootIsDir
    THEN Failed("OpenSSL config directory (root_dir) doesn't exist", {"_command_path"})
    ELSE IF ~e.rootRWX
    THEN Failed("OpenSSL config directory (root_dir) should have \"rwx\" permissions",
                {"_command_path"})
    ELSE IF ~e.crlIsFile
    THEN Failed("Crl path is not a file", {"_command_path", "_root_dir"})
    ELSE IF e.config = "missing"
    THEN Failed("Config path is not a file", {"_command_path", "_root_dir", "_crl_path"})
    ELSE IF e.config = "unreadable"
    THEN [out  |-> Raise("PermissionError", "open(config_path)"),
          self |-> {"_command_path", "_root_dir", "_config_path", "_crl_path", "_cnf"}]
    ELSE IF e.config = "malformed"
    THEN [out  |-> Raise("configparser.ParsingError", "read_file"),
          self |-> {"_command_path", "_root_dir", "_config_path", "_crl_path", "_cnf"}]
    ELSE [out  |-> Ok("OpenSSLBackend"),
          self |-> {"_command_path", "_root_dir", "_config_path", "_crl_path", "_cnf"}]

\* OpenSSLBackend.__init__ run against e: its outcome, and the attributes it
\* had assigned to self when it ended
OpenSSLBackend_init(e) ==
    IF ~e.commandIsFile
    THEN Failed("OpenSSL command not found", {})
    ELSE IF ~e.commandExec
    THEN Failed("OpenSSL command is not executable", {})
    ELSE IF ~e.rootIsDir
    THEN Failed("OpenSSL config directory (root_dir) doesn't exist", {"_command_path"})
    ELSE IF ~e.rootRWX
    THEN Failed("OpenSSL config directory (root_dir) should have \"rwx\" permissions",
                {"_command_path"})
    ELSE IF e.config = "missing"
    THEN Failed("Config path is not a file", {"_command_path", "_root_dir"})
    ELSE IF ~e.crlIsFile
    THEN Failed("Crl path is not a file", {"_command_path", "_root_dir", "_config_path"})
    ELSE IF e.config = "unreadable"
    THEN [out  |-> Raise("PermissionError", "open(config_path)"),
          self |-> {"_command_path", "_root_dir", "_config_path", "_crl_path", "_cnf"}]
    ELSE IF e.config = "malformed"
    THEN [out  |-> Raise("configparser.ParsingError", "read_file"),
          self |-> {"_command_path", "_root_dir", "_config_path", "_crl_path", "_cnf"}]
    ELSE [out  |-> Ok("OpenSSLBackend"),
          self |-> {"_command_path", "_root_dir", "_config_path", "_crl_path", "_cnf"}]

\* SectionProxy.__getitem__: section[option] of parsed document c
SectionGet(c, section, option) ==
    IF section \notin DOMAIN c THEN Raise("KeyError", section)
    ELSE With(optionxform(option), LAMBDA key :
           IF key \notin DOMAIN c[section] THEN Raise("KeyError", option)
           ELSE With(c[section][key], LAMBDA raw : before_get(raw, c[section])))

\* self._ca_section[option]
CaSectionGet(c, option) ==
    Try(SectionGet(c, k_ca, k_default_ca), LAMBDA name : SectionGet(c, name, option))

\* self._policy_section[option]
PolicySectionGet(c, option) ==
    Try(CaSectionGet(c, k_policy), LAMBDA name : SectionGet(c, name, option))

\* os.path.join(a, b)
Join(a, b) ==
    IF StartsWith(b, <<"/">>) THEN b
    ELSE IF a = <<>> \/ EndsWith(a, <<"/">>) THEN a \o b
    ELSE a \o <<"/">> \o b

_new_certs_dir(c) ==
    Try(CaSectionGet(c, k_new_certs_dir), LAMBDA v : Ok(Join(root_dir, v)))

_certs_dir(c) ==
    Try(CaSectionGet(c, k_certs), LAMBDA certs_dir :
      IF certs_dir # <<>> THEN Ok(Join(root_dir, certs_dir))
      ELSE Try(CaSectionGet(c, k_dir), LAMBDA d : Ok(Join(Join(root_dir, d), t_certs))))

_adapt_policy(policy) ==
    LET p == Lower(policy) IN
    IF p = t_supplied THEN "REQUIRED"
    ELSE IF p = t_match THEN "FROMCA"
    ELSE IF p = t_optional THEN "OPTIONAL"
    ELSE "None"

\* the keys of get_csr_policy's result with the option each is read from, in
\* the order the dict display evaluates them
PolicyFields ==
    << <<"common_name", k_commonName>>,
       <<"country", k_countryName>>,
       <<"state", k_stateOrProvinceName>>,
       <<"locality", k_localityName>>,
       <<"org_name", k_organizationName>>,
       <<"org_unit", k_organizationalUnitName>>,
       <<"email", k_emailAddress>> >>

RECURSIVE ReadPolicy(_, _, _)
\* the entries of get_csr_policy's dict display from the i-th on, added to acc
ReadPolicy(c, i, acc) ==
    IF i > Len(PolicyFields) THEN Ok(acc)
    ELSE Try(PolicySectionGet(c, PolicyFields[i][2]), LAMBDA v :
           ReadPolicy(c, i + 1, (PolicyFields[i][1] :> _adapt_policy(v)) @@ acc))

get_csr_policy(c) == ReadPolicy(c, 1, <<>>)

(***************************************************************************)
(* The external openssl tool, as the subprocess protocol describes it      *)
(***************************************************************************)
end_text == <<"-", "-", "-", "-", "-", "E", "N", "D", " ", "P", "R", "I", "V", "A", "T",
    "E", " ", "K", "E", "Y", "-", "-", "-", "-", "-">>

begin_key == <<"-", "-", "-", "-", "-", "B", "E", "G", "I", "N", " ", "P", "R", "I",
    "V", "A", "T", "E", " ", "K", "E", "Y", "-", "-", "-", "-", "-">>

begin_csr == <<"-", "-", "-", "-", "-", "B", "E", "G", "I", "N", " ", "C", "E", "R",
    "T", "I", "F", "I", "C", "A", "T", "E", " ", "R", "E", "Q", "U", "E", "S", "T", "-",
    "-", "-", "-", "-">>

end_csr == <<"-", "-", "-", "-", "-", "E", "N", "D", " ", "C", "E", "R", "T", "I", "F",
    "I", "C", "A", "T", "E", " ", "R", "E", "Q", "U", "E", "S", "T", "-", "-", "-", "-",
    "-">>

begin_cert == <<"-", "-", "-", "-", "-", "B", "E", "G", "I", "N", " ", "C", "E", "R",
    "T", "I", "F", "I", "C", "A", "T", "E", "-", "-", "-", "-", "-">>

end_cert == <<"-", "-", "-", "-", "-", "E", "N", "D", " ", "C", "E", "R", "T", "I", "F",
    "I", "C", "A", "T", "E", "-", "-", "-", "-", "-">>

KeyIds == {"1", "2"}

\* serial numbers as the tool prints them
SerialTexts == { <<"1", "A">>, <<"B">>, <<"0", "1">> }

\* a PEM block; its base64 body is abbreviated to the text that identifies it
KeyBlock(k) == begin_key \o <<"\n", k, "\n">> \o end_text

CsrBlock(k) == begin_csr \o <<"\n", k, "\n">> \o end_csr

CertPem(serial) == begin_cert \o <<"\n">> \o serial \o <<"\n">> \o end_cert \o <<"\n">>

\* standard-error bytes of a failing run: ASCII, a two-byte UTF-8 sequence,
\* a byte that is not UTF-8
StderrChoices == { <<"e", "r", "r">>, <<"e", "xC3", "xA9">>, <<"e", "xFF">> }

\* openssl req -newkey rsa -nodes -subj ...: a key block, a newline, a request
ReqOutcomes ==
    { [returncode |-> 0, stderr |-> <<>>, key |-> KeyBlock(k),
       stdout |-> KeyBlock(k) \o <<"\n">> \o CsrBlock(k) \o <<"\n">>] : k \in KeyIds }
    \cup { [returncode |-> 1, stderr |-> e, key |-> <<>>, stdout |-> <<>>] :
             e \in StderrChoices }

\* openssl ca -batch -notext: a certificate under a serial, or a failure
CaOutcomes ==
    { [returncode |-> 0, stderr |-> <<>>, serial |-> s, stdout |-> CertPem(s)] :
        s \in SerialTexts }
    \cup { [returncode |-> 1, stderr |-> e, serial |-> <<>>, stdout |-> <<>>] :
             e \in StderrChoices }

\* the message of a UnicodeDecodeError, as one symbol of text
CodecMessage == <<"'utf-8' codec can't decode byte">>

\* the bytes of b that no UTF-8 sequence accounts for: xFF, a lead byte xC3
\* without its continuation xA9, a continuation without its lead
Undecodable(b) ==
    {i \in DOMAIN b :
        \/ b[i] = "xFF"
        \/ b[i] = "xC3" /\ (i = Len(b) \/ b[i + 1] # "xA9")
        \/ b[i] = "xA9" /\ (i = 1 \/ b[i - 1] # "xC3")}

IsLeadOrAscii(byte) == byte # "xA9"

\* bytes.decode(): UTF-8, strict; an ASCII byte is its character, the pair
\* xC3 xA9 is the one character U+00E9
Decode(b) ==
    IF Undecodable(b) # {} THEN Raise("UnicodeDecodeError", CodecMessage)
    ELSE With(SelectSeq(b, IsLeadOrAscii), LAMBDA chars :
           Ok([i \in DOMAIN chars |-> IF chars[i] = "xC3" THEN "U+00E9" ELSE chars[i]]))

RECURSIVE StripZeros(_)
StripZeros(s) == IF s # <<>> /\ s[1] = "0" THEN StripZeros(Tail(s)) ELSE s

\* SerialNumber.as_hex: lowercase hex digits, an even number of them
as_hex(serial) ==
    LET h == Lower(StripZeros(serial)) IN
    IF Len(h) % 2 = 0 /\ h # <<>> THEN h ELSE <<"0">> \o h

\* Cert(pem): the parsed certificate, or the parser's failure
Cert(pem) ==
    IF /\ StartsWith(pem, begin_cert \o <<"\n">>)
       /\ EndsWith(pem, <<"\n">> \o end_cert \o <<"\n">>)
       /\ Len(pem) > Len(begin_cert) + Len(end_cert) + 3
    THEN Ok([pem |-> pem,
             serial_number |-> SubSeq(pem, Len(begin_cert) + 2,
                                      Len(pem) - Len(end_cert) - 2)])
    ELSE Raise("ValueError", <<"not a certificate">>)

PrivateKey(pem) == [pem |-> pem]

\* the file openssl ca itself stores: <new_certs_dir>/<SERIAL>.pem
ToolFile(c, serial) ==
    Try(_new_certs_dir(c), LAMBDA dir : Ok(Join(dir, Upper(as_hex(serial)) \o t_pem)))

ToolStore(fs, c, run) ==
    IF run.returncode # 0 THEN fs
    ELSE With(ToolFile(c, run.serial), LAMBDA path :
           IF path.status = "raised" THEN fs ELSE (path.value :> run.stdout) @@ fs)

\* the tool never signs under a serial it has used
FreshSerial(fs, c, run) ==
    run.returncode = 0 =>
        With(ToolFile(c, run.serial), LAMBDA path :
          path.status = "ok" /\ path.value \notin DOMAIN fs)

(***************************************************************************)
(* OpenSSLBackend: issuing and listing                                     *)
(***************************************************************************)
\* self._openssl(...), given what the subprocess run produced
_openssl(run) ==
    IF run.returncode # 0
    THEN Try(Decode(run.stderr), LAMBDA msg : Raise("ValueError", msg))
    ELSE Decode(run.stdout)

\* _split_pem cutting at the start of the end marker instead of after it
_split_pem_before_marker(key_and_csr_pem) ==
    With(Find(key_and_csr_pem, end_text), LAMBDA key_pem_end :
      [key_pem |-> SliceTo(key_and_csr_pem, key_pem_end),
       csr_pem |-> SliceFrom(key_and_csr_pem, key_pem_end + 1)])

_split_pem(key_and_csr_pem) ==
    With(Find(key_and_csr_pem, end_text) + Len(end_text), LAMBDA key_pem_end :
      [key_pem |-> SliceTo(key_and_csr_pem, key_pem_end),
       csr_pem |-> SliceFrom(key_and_csr_pem, key_pem_end + 1)])

\* self._save_pem(pem_data, filename) on file system fs: the file system after it
_save_pem(c, fs, pem_data, filename) ==
    Try(_certs_dir(c), LAMBDA dir : Ok((Join(dir, filename) :> pem_data) @@ fs))

\* no call of issue_cert is in flight
NoCall == [op |-> "none"]

\* issue_cert, lines 128-129: the req run has exited; the outcome, or the
\* frame of the call waiting for the ca run
issue_cert_req(req) ==
    With(_openssl(req), LAMBDA key_and_csr_pem :
      IF key_and_csr_pem.status = "raised"
      THEN [out |-> key_and_csr_pem, frame |-> NoCall]
      ELSE With(_split_pem(key_and_csr_pem.value), LAMBDA pems :
        [out   |-> Ok("running"),
         frame |-> [op |-> "issue_cert", line |-> 130, runs |-> <<req>>,
                    key_pem |-> pems.key_pem, csr_pem |-> pems.csr_pem]]))

\* issue_cert, line 130: the ca run has stored its copy and exited
issue_cert_ca(c, fs, frame, ca) ==
    With(_openssl(ca), LAMBDA cert_pem :
      [out   |-> IF cert_pem.status = "raised" THEN cert_pem ELSE Ok("running"),
       files |-> ToolStore(fs, c, ca),
       runs  |-> Append(frame.runs, ca),
       frame |-> IF cert_pem.status = "raised" THEN NoCall
                 ELSE [op |-> "issue_cert", line |-> 131, runs |-> Append(frame.runs, ca),
                       key_pem |-> frame.key_pem, cert_pem |-> cert_pem.value]])

\* issue_cert, lines 131-133: parse the certificate and write <h>.pem
issue_cert_save_cert(c, fs, frame) ==
    With(Cert(frame.cert_pem), LAMBDA cert :
      IF cert.status = "raised" THEN [out |-> cert, files |-> fs, frame |-> NoCall]
      ELSE With(as_hex(cert.value.serial_number), LAMBDA serial_hex :
        With(_save_pem(c, fs, frame.cert_pem, serial_hex \o t_pem), LAMBDA saved :
          IF saved.status = "raised" THEN [out |-> saved, files |-> fs, frame |-> NoCall]
          ELSE [out   |-> Ok("running"),
                files |-> saved.value,
                frame |-> [op |-> "issue_cert", line |-> 134, runs |-> frame.runs,
                           key_pem |-> frame.key_pem, cert |-> cert.value,
                           serial_hex |-> serial_hex]])))

\* issue_cert, lines 134-135: write <h>.key and return the pair
issue_cert_save_key(c, fs, frame) ==
    With(_save_pem(c, fs, frame.key_pem, frame.serial_hex \o t_key), LAMBDA saved :
      IF saved.status = "raised" THEN [out |-> saved, files |-> fs, frame |-> NoCall]
      ELSE [out   |-> Ok(<<PrivateKey(frame.key_pem), frame.cert>>),
            files |-> saved.value,
            frame |-> NoCall])

\* the text a path holds when it is a directory
Directory == <<"directory">>

\* os.path.isdir(path): a directory made as such, or one a file lies under
isdir(fs, path) ==
    \/ path \in DOMAIN fs /\ fs[path] = Directory
    \/ \E q \in DOMAIN fs : StartsWith(q, path \o <<"/">>)

\* the first component of relative path p
FirstName(p) ==
    With(Find(p, <<"/">>), LAMBDA i : IF i = -1 THEN p ELSE SliceTo(p, i))

\* os.listdir(dir): the name of every entry of dir, files and directories
listdir(fs, dir) ==
    LET prefix == IF EndsWith(dir, <<"/">>) THEN dir ELSE dir \o <<"/">>
    IN { FirstName(SliceFrom(p, Len(prefix))) :
           p \in {q \in DOMAIN fs : StartsWith(q, prefix) /\ Len(q) > Len(prefix)} }

\* Cert.from_file(path)
Cert_from_file(fs, path) ==
    IF isdir(fs, path) THEN Raise("IsADirectoryError", path)
    ELSE IF path \notin DOMAIN fs THEN Raise("FileNotFoundError", path)
    ELSE Cert(fs[path])

\* the caller holds no generator
NoGenerator == [line |-> 0]

\* get_cert_list(): the generator as returned, nothing read yet
get_cert_list == [line |-> 155]

\* the generator at line 156: os.listdir has returned
get_cert_list_listdir(c, fs) ==
    With(_new_certs_dir(c), LAMBDA dir :
      IF dir.status = "raised" THEN [out |-> dir, gen |-> NoGenerator]
      ELSE [out |-> Ok("running"),
            gen |-> [line |-> 157, dir |-> dir.value, names |-> listdir(fs, dir.value),
                     yielded |-> {}]])

\* the generator at lines 157-158 for entry cert_filename: the certificate is
\* yielded, or Cert.from_file raises and the generator is finished
get_cert_list_next(fs, g, cert_filename) ==
    With(Cert_from_file(fs, Join(g.dir, cert_filename)), LAMBDA cert :
      IF cert.status = "raised" THEN [out |-> cert, gen |-> NoGenerator]
      ELSE [out |-> Ok("running"),
            gen |-> [g EXCEPT !.names = @ \ {cert_filename},
                              !.yielded = @ \cup {cert.value}]])

\* get_cert(serial_str)
get_cert(c, fs, serial_str) ==
    Try(_new_certs_dir(c), LAMBDA dir :
      With(Join(dir, as_hex(serial_str) \o t_pem), LAMBDA cert_path :
        Cert_from_file(fs, cert_path)))

\* the operations IBackend declares
IBackendOps == {"validate_setup", "setup", "get_ca_cert", "issue_cert", "revoke_cert",
                "get_cert_list", "get_cert", "get_crl", "version"}

\* the attributes class OpenSSLBackend defines
OpenSSLBackendAttrs == {"name", "description", "init_requires", "get_ca_cert",
                        "get_csr_policy", "get_csr_defaults", "issue_cert",
                        "get_cert", "get_cert_list", "get_crl", "version"}

\* backend.<op>: attribute lookup on an instance whose class defines attrs
getattr(attrs, op) ==
    IF op \in attrs THEN Ok(op)
    ELSE Raise("AttributeError", op)

(***************************************************************************)
(* The OpenSSL driver as a state machine                                   *)
(***************************************************************************)
Ready(driver) == [driver |-> driver]

\* variables the OpenSSL driver never touches
ParkedForOpenSSL ==
    /\ args = <<>> /\ remote = <<>> /\ requests = <<>>
    /\ value = <<>> /\ defaults = <<>>

\* the directories the operator has made for a driver configured by c:
\* new_certs_dir and the certs directory
MadeDirs(c) ==
    With({d.value : d \in {x \in {_new_certs_dir(c), _certs_dir(c)} : x.status = "ok"}},
         LAMBDA dirs : [p \in dirs |-> Directory])

Init ==
    /\ env \in Environments
    /\ backend = NoInstance
    /\ result = NoResult
    /\ cnf = <<>>
    /\ files = IF env.rootIsDir THEN MadeDirs(env.document) ELSE <<>>
    /\ runs = <<>>
    /\ issued = {}
    /\ pending = NoCall
    /\ gen = NoGenerator
    /\ ParkedForOpenSSL

\* backend = OpenSSLBackend(command_path, config_path, root_dir, crl_path)
Construct ==
    /\ backend = NoInstance /\ result = NoResult
    /\ env \in Environments
    /\ LET made == OpenSSLBackend_init(env) IN
       /\ result' = Call("OpenSSLBackend.__init__", made.out)
       /\ backend' = IF made.out.status = "ok" THEN Ready("openssl") ELSE NoInstance
       /\ cnf' = IF made.out.status = "ok" THEN env.document ELSE cnf
    /\ UNCHANGED <<env, files, runs, issued, args, remote, requests, value, defaults,
                   pending, gen>>

\* certificates the tool has signed so far
Signed(c, fs) ==
    {s \in SerialTexts : With(ToolFile(c, s), LAMBDA path :
                            path.status = "ok" /\ path.value \in DOMAIN fs)}

\* backend.issue_cert(csr) is called and its req run exits.  Callers
\* serialize the calls that change the directory: one is in flight at a time.
IssueCert ==
    /\ backend = Ready("openssl")
    /\ pending = NoCall
    /\ Cardinality(Signed(cnf, files)) < MaxIssue
    /\ \E req \in ReqOutcomes :
         \E step \in {issue_cert_req(req)} :
           /\ pending' = step.frame
           /\ IF step.out.status = "raised"
              THEN result' = Call("issue_cert", step.out) /\ runs' = <<req>>
              ELSE UNCHANGED <<result, runs>>
    /\ UNCHANGED <<backend, env, cnf, files, issued, args, remote, requests,
                   value, defaults, gen>>

\* the ca run of the call in flight stores its copy and exits
IssueCertCa ==
    /\ pending.op = "issue_cert" /\ pending.line = 130
    /\ \E ca \in CaOutcomes :
         /\ FreshSerial(files, cnf, ca)
         /\ \E step \in {issue_cert_ca(cnf, files, pending, ca)} :
              /\ pending' = step.frame
              /\ files' = step.files
              /\ IF step.out.status = "raised"
                 THEN result' = Call("issue_cert", step.out) /\ runs' = step.runs
                 ELSE UNCHANGED <<result, runs>>
    /\ UNCHANGED <<backend, env, cnf, issued, args, remote, requests,
                   value, defaults, gen>>

\* the call in flight parses the certificate and writes <h>.pem
IssueCertSaveCert ==
    /\ pending.op = "issue_cert" /\ pending.line = 131
    /\ \E step \in {issue_cert_save_cert(cnf, files, pending)} :
         /\ pending' = step.frame
         /\ files' = step.files
         /\ IF step.out.status = "raised"
            THEN result' = Call("issue_cert", step.out) /\ runs' = pending.runs
            ELSE UNCHANGED <<result, runs>>
    /\ UNCHANGED <<backend, env, cnf, issued, args, remote, requests,
                   value, defaults, gen>>

\* the call in flight writes <h>.key and returns
IssueCertSaveKey ==
    /\ pending.op = "issue_cert" /\ pending.line = 134
    /\ \E step \in {issue_cert_save_key(cnf, files, pending)} :
         /\ pending' = step.frame
         /\ files' = step.files
         /\ result' = Call("issue_cert", step.out)
         /\ runs' = pending.runs
         /\ issued' = IF step.out.status = "ok" THEN issued \cup {pending.serial_hex}
                      ELSE issued
    /\ UNCHANGED <<backend, env, cnf, args, remote, requests, value, defaults, gen>>

\* how an iteration of get_cert_list ended: the outcome and what it had yielded
Iterated(out, yielded) == ("yielded" :> yielded) @@ Call("get_cert_list", out)

\* g = backend.get_cert_list(): a generator; nothing is read yet
GetCertList ==
    /\ backend = Ready("openssl")
    /\ gen = NoGenerator
    /\ gen' = get_cert_list
    /\ UNCHANGED <<backend, result, env, cnf, files, runs, issued, args, remote,
                   requests, value, defaults, pending>>

\* the first next(g) runs os.listdir
GeneratorListdir ==
    /\ gen.line = 155
    /\ \E step \in {get_cert_list_listdir(cnf, files)} :
         /\ gen' = step.gen
         /\ IF step.out.status = "raised"
            THEN result' = Iterated(step.out, {}) /\ runs' = <<>>
            ELSE UNCHANGED <<result, runs>>
    /\ UNCHANGED <<backend, env, cnf, files, issued, args, remote, requests,
                   value, defaults, pending>>

\* next(g) reads one entry, in the order os.listdir gave (any order)
GeneratorNext ==
    /\ gen.line = 157
    /\ \E cert_filename \in gen.names :
         \E step \in {get_cert_list_next(files, gen, cert_filename)} :
           /\ gen' = step.gen
           /\ IF step.out.status = "raised"
              THEN result' = Iterated(step.out, gen.yielded) /\ runs' = <<>>
              ELSE UNCHANGED <<result, runs>>
    /\ UNCHANGED <<backend, env, cnf, files, issued, args, remote, requests,
                   value, defaults, pending>>

\* next(g) after the last entry: the iteration is complete
GeneratorStop ==
    /\ gen.line = 157 /\ gen.names = {}
    /\ gen' = NoGenerator
    /\ result' = Iterated(Ok(gen.yielded), gen.yielded)
    /\ runs' = <<>>
    /\ UNCHANGED <<backend, env, cnf, files, issued, args, remote, requests,
                   value, defaults, pending>>

GetCert ==
    /\ backend = Ready("openssl")
    /\ \E serial_str \in SerialTexts :
         result' = Call("get_cert", get_cert(cnf, files, serial_str))
    /\ runs' = <<>>
    /\ UNCHANGED <<backend, env, cnf, files, issued, args, remote, requests,
                   value, defaults, pending, gen>>

GetCsrPolicy ==
    /\ backend = Ready("openssl")
    /\ result' = Call("get_csr_policy", get_csr_policy(cnf))
    /\ runs' = <<>>
    /\ UNCHANGED <<backend, env, cnf, files, issued, args, remote, requests,
                   value, defaults, pending, gen>>

\* backend._certs_dir
GetCertsDir ==
    /\ backend = Ready("openssl")
    /\ result' = Call("_certs_dir", _certs_dir(cnf))
    /\ runs' = <<>>
    /\ UNCHANGED <<backend, env, cnf, files, issued, args, remote, requests,
                   value, defaults, pending, gen>>

\* backend.<op>(...) for an operation of IBackend the class does not define
CallUndefined ==
    /\ backend = Ready("openssl")
    /\ \E op \in IBackendOps :
         /\ getattr(OpenSSLBackendAttrs, op).status = "raised"
         /\ result' = Call(op, getattr(OpenSSLBackendAttrs, op))
    /\ runs' = <<>>
    /\ UNCHANGED <<backend, env, cnf, files, issued, args, remote, requests,
                   value, defaults, pending, gen>>

Next ==
    \/ Construct
    \/ IssueCert
    \/ IssueCertCa
    \/ IssueCertSaveCert
    \/ IssueCertSaveKey
    \/ GetCertList
    \/ GeneratorListdir
    \/ GeneratorNext
    \/ GeneratorStop
    \/ GetCert
    \/ GetCsrPolicy
    \/ GetCertsDir
    \/ CallUndefined

Spec == Init /\ [][Next]_vars

\* the operations that read or write the certificate directories
NextFiles ==
    \/ Construct
    \/ IssueCert
    \/ IssueCertCa
    \/ IssueCertSaveCert
    \/ IssueCertSaveKey
    \/ GetCertList
    \/ GeneratorListdir
    \/ GeneratorNext
    \/ GeneratorStop
    \/ GetCert

SpecFiles == Init /\ [][NextFiles]_vars


(***************************************************************************)
(* get_csr_policy over every policy section                                *)
(***************************************************************************)
PolicyValues == { t_supplied,
                  <<"M", "A", "T", "C", "H">>,
                  <<"O", "p", "t", "i", "o", "n", "a", "l">>,
                  <<"b", "o", "g", "u", "s">> }

PolicyKeys == {Lower(PolicyFields[i][2]) : i \in DOMAIN PolicyFields}

\* every policy section: each subject field set to one of the values, or not set
PolicySections == UNION {[K -> PolicyValues] : K \in SUBSET PolicyKeys}

OkEnvironment(doc) ==
    [commandIsFile |-> TRUE, commandExec |-> TRUE, rootIsDir |-> TRUE, rootRWX |-> TRUE,
     config |-> "ok", document |-> doc, crlIsFile |-> TRUE]

\* a driver constructed on a document with policy section p
InitPolicy ==
    /\ \E p \in PolicySections :
         /\ cnf = Document((k_certs :> <<"$", "d", "i", "r", "/", "c">>) @@ CaSectionBase, p)
         /\ env = OkEnvironment(cnf)
    /\ backend = Ready("openssl")
    /\ result = NoResult
    /\ files = MadeDirs(cnf)
    /\ runs = <<>>
    /\ issued = {}
    /\ pending = NoCall
    /\ gen = NoGenerator
    /\ ParkedForOpenSSL

NextPolicy == result = NoResult /\ GetCsrPolicy

SpecPolicy == InitPolicy /\ [][NextPolicy]_vars

(***************************************************************************)
(* Claims about the OpenSSL driver                                         *)
(***************************************************************************)
\* C1: when issue_cert succeeds with a certificate of canonical hex serial h,
\* the certs directory holds h.pem with the signed certificate and h.key with
\* the generated private key, and the call returns that key with a
\* certificate whose serial normalizes to h.
C1_IssuedPairStored ==
    (result.op = "issue_cert" /\ result.status = "ok") =>
        LET h    == as_hex(runs[2].serial)
            dir  == _certs_dir(cnf)
            key  == result.value[1]
            cert == result.value[2]
        IN /\ dir.status = "ok"
           /\ Join(dir.value, h \o t_pem) \in DOMAIN files
           /\ files[Join(dir.value, h \o t_pem)] = CertPem(runs[2].serial)
           /\ Join(dir.value, h \o t_key) \in DOMAIN files
           /\ files[Join(dir.value, h \o t_key)] = runs[1].key
           /\ key.pem = runs[1].key
           /\ cert.pem = CertPem(runs[2].serial)
           /\ as_hex(cert.serial_number) = h

\* the tool signed under serial 1A and issue_cert returned: 1a.pem and 1a.key
C1_Witness ==
    /\ result.op = "issue_cert" /\ result.status = "ok"
    /\ runs[2].serial = <<"1", "A">>
    /\ <<"/", "r", "/", "d", "/", "c", "/", "1", "a", ".", "k", "e", "y">> \in DOMAIN files

\* ValueError and its subclasses
IsValueError(exc) == exc \in {"ValueError", "UnicodeDecodeError"}

\* C2: when a tool run made by issue_cert exits non-zero, issue_cert fails
\* with the external-tool error (a ValueError) whose detail is the tool's
\* standard-error text.
C2_ToolFailureCarriesStderr ==
    (result.op = "issue_cert") =>
        \A i \in DOMAIN runs :
            runs[i].returncode # 0 =>
                /\ result.status = "raised"
                /\ IsValueError(result.exc)
                /\ Decode(runs[i].stderr).status = "ok"
                /\ result.detail = Decode(runs[i].stderr).value

\* the four preconditions of the constructor, in the order it tests them
Precondition(e) ==
    << e.commandIsFile /\ e.commandExec,
       e.rootIsDir /\ e.rootRWX,
       e.config # "missing",
       e.crlIsFile >>

PreconditionMessages ==
    << {"OpenSSL command not found", "OpenSSL command is not executable"},
       {"OpenSSL config directory (root_dir) doesn't exist",
        "OpenSSL config directory (root_dir) should have \"rwx\" permissions"},
       {"Config path is not a file"},
       {"Crl path is not a file"} >>

\* the first failing precondition decides: BackendError with its message, and
\* the caller holds no instance
FirstFailureDecides ==
    \A k \in 1..4 :
        (~Precondition(env)[k] /\ \A j \in 1..(k - 1) : Precondition(env)[j]) =>
            /\ result.status = "raised"
            /\ result.exc = "BackendError"
            /\ result.detail \in PreconditionMessages[k]
            /\ backend = NoInstance

\* C3 as stated: the first failing precondition decides the outcome, and any
\* failure of construction is a BackendError.
C3_AnyFailureIsBackendError ==
    (result.op = "OpenSSLBackend.__init__") =>
        /\ FirstFailureDecides
        /\ result.status = "raised" => (result.exc = "BackendError" /\ backend = NoInstance)

\* C3 amended: the first failing precondition decides the outcome with a
\* BackendError; with all four met, construction succeeds unless opening or
\* parsing the configuration file fails, and that failure is raised as it is
\* (not a BackendError); no failure leaves an instance.
C3_PreconditionOrder ==
    (result.op = "OpenSSLBackend.__init__") =>
        /\ FirstFailureDecides
        /\ result.status = "raised" => backend = NoInstance
        /\ (\A k \in 1..4 : Precondition(env)[k]) =>
              /\ env.config = "ok" => (result.status = "ok" /\ backend = Ready("openssl"))
              /\ env.config # "ok" =>
                    (result.status = "raised" /\ result.exc # "BackendError")

\* executable and root directory are fine, config file and CRL are both absent
C3_Witness ==
    /\ result.op = "OpenSSLBackend.__init__"
    /\ Precondition(env)[1] /\ Precondition(env)[2]
    /\ ~Precondition(env)[3] /\ ~Precondition(env)[4]
    /\ result.status = "raised" /\ result.detail = "Config path is not a file"

\* C4: on a constructed driver every operation of IBackend is available under
\* its declared name.
C4_ContractOpsAvailable ==
    (backend # NoInstance /\ result.op \in IBackendOps) =>
        ~(result.status = "raised" /\ result.exc = "AttributeError")

\* C5: after successful issue_cert calls, get_cert_list consumed to its end
\* completes and yields a certificate for every serial issued so far.
C5_ListYieldsEveryIssued ==
    (result.op = "get_cert_list") =>
        /\ result.status = "ok"
        /\ \A h \in issued : \E cert \in result.value : as_hex(cert.serial_number) = h

\* the path the claim derives from CA section sec: root joined with the certs
\* value when it is set and not empty, else root joined with dir and "certs"
ClaimedCertsDir(sec) ==
    IF k_certs \in DOMAIN sec /\ sec[k_certs] # <<>>
    THEN Join(root_dir, before_get(sec[k_certs], sec).value)
    ELSE Join(Join(root_dir, before_get(sec[k_dir], sec).value), t_certs)

\* C12: the certs directory lookup returns a path and does not fail: root
\* joined with the CA section's certs value when set, and root joined with
\* dir and "certs" when certs is not set or is empty.
C12_CertsDirDerived ==
    (result.op = "_certs_dir") =>
        /\ result.status = "ok"
        /\ result.value = ClaimedCertsDir(cnf[sec_CA])

\* the policy value the claim gives a field whose option is set to raw
ClaimedPolicy(section, option) ==
    IF Lower(option) \notin DOMAIN section THEN "None"
    ELSE LET raw == Lower(section[Lower(option)]) IN
         IF raw = t_supplied THEN "REQUIRED"
         ELSE IF raw = t_match THEN "FROMCA"
         ELSE IF raw = t_optional THEN "OPTIONAL"
         ELSE "None"

\* C8: get_csr_policy returns for every policy section, mapping each of the
\* seven fields from its value (any case): supplied, match, optional to
\* REQUIRED, FROM_CA, OPTIONAL, and a field with another value or not set to
\* no mapping.
C8_PolicyMappedWithoutError ==
    (result.op = "get_csr_policy") =>
        /\ result.status = "ok"
        /\ \A i \in DOMAIN PolicyFields :
              result.value[PolicyFields[i][1]] = ClaimedPolicy(cnf[sec_pol], PolicyFields[i][2])

(***************************************************************************)
(* vault.py: Backend, and the Vault server it talks to                     *)
(***************************************************************************)
http_prefix == <<"h", "t", "t", "p", ":", "/", "/">>

https_prefix == <<"h", "t", "t", "p", "s", ":", "/", "/">>

Urls == { http_prefix \o <<"v">>, https_prefix \o <<"v">>,
          <<"f", "t", "p", ":", "/", "/", "v">>, <<"v">>, <<"h", "t", "t", "p">> }

MountPoints == { <<"p", "k", "i">>, <<"p", "k", "i", "/">>, <<"k", "v">> }

\* the mount paths the server can list, each with its trailing slash
MountPaths == { <<"p", "k", "i", "/">>, <<"k", "v", "/">> }

role == <<"w", "e", "b">>

Servers ==
    { [reachable |-> up, authenticated |-> auth, mounts |-> m,
       tuned |-> {}, roots |-> {}, roles |-> {}] :
        up \in BOOLEAN, auth \in BOOLEAN, m \in SUBSET MountPaths }

Request(method, path) == [method |-> method, path |-> path]

\* Backend.__init__ keeping the mount point as given, trailing slash included
Backend_init_keep_slash(a, r) ==
    IF ~StartsWith(a.url, http_prefix) /\ ~StartsWith(a.url, https_prefix)
    THEN [out |-> Raise("BackendError", "URL needs to start with http:// or https://"),
          self |-> NoInstance, requests |-> <<>>]
    ELSE With([driver |-> "vault", mount_point |-> a.mount_point], LAMBDA self :
      With(<<Request("GET", "auth/token/lookup-self")>>, LAMBDA probe :
        IF ~r.reachable
        THEN [out |-> Raise("BackendError",
                            "Could not connect to Vault server. Check address and credentials!"),
              self |-> self, requests |-> probe]
        ELSE IF ~r.authenticated
        THEN [out |-> Raise("BackendError", "Invalid connection credentials!"),
              self |-> self, requests |-> probe]
        ELSE [out |-> Ok("Backend"), self |-> self, requests |-> probe]))

\* Backend.__init__ without the except clause around the probe
Backend_init_no_remap(a, r) ==
    IF ~StartsWith(a.url, http_prefix) /\ ~StartsWith(a.url, https_prefix)
    THEN [out |-> Raise("BackendError", "URL needs to start with http:// or https://"),
          self |-> NoInstance, requests |-> <<>>]
    ELSE With([driver |-> "vault",
               mount_point |-> IF EndsWith(a.mount_point, <<"/">>)
                               THEN SliceTo(a.mount_point, Len(a.mount_point) - 1)
                               ELSE a.mount_point],
              LAMBDA self :
      With(<<Request("GET", "auth/token/lookup-self")>>, LAMBDA probe :
        IF ~r.reachable
        THEN [out |-> Raise("RequestException", "ConnectionError"),
              self |-> self, requests |-> probe]
        ELSE IF ~r.authenticated
        THEN [out |-> Raise("BackendError", "Invalid connection credentials!"),
              self |-> self, requests |-> probe]
        ELSE [out |-> Ok("Backend"), self |-> self, requests |-> probe]))

\* Backend.__init__(url, token, mount_point, role) against server r: outcome,
\* the instance (self) and the requests made
Backend_init(a, r) ==
    IF ~StartsWith(a.url, http_prefix) /\ ~StartsWith(a.url, https_prefix)
    THEN [out |-> Raise("BackendError", "URL needs to start with http:// or https://"),
          self |-> NoInstance, requests |-> <<>>]
    ELSE With([driver |-> "vault",
               mount_point |-> IF EndsWith(a.mount_point, <<"/">>)
                               THEN SliceTo(a.mount_point, Len(a.mount_point) - 1)
                               ELSE a.mount_point],
              LAMBDA self :
      With(<<Request("GET", "auth/token/lookup-self")>>, LAMBDA probe :
        IF ~r.reachable
        THEN [out |-> Raise("BackendError",
                            "Could not connect to Vault server. Check address and credentials!"),
              self |-> self, requests |-> probe]
        ELSE IF ~r.authenticated
        THEN [out |-> Raise("BackendError", "Invalid connection credentials!"),
              self |-> self, requests |-> probe]
        ELSE [out |-> Ok("Backend"), self |-> self, requests |-> probe]))

\* validate_setup(): outcome and the requests made
validate_setup(self, r) ==
    With(r.mounts, LAMBDA secret_backends :
      [out |-> IF (self.mount_point \o <<"/">>) \in secret_backends
               THEN Raise("ValueError", "Secret backend already exists!")
               ELSE Ok("None"),
       requests |-> <<Request("GET", "sys/mounts")>>])

\* the four writes of setup(), in order, each with its effect on the server
SetupWrites(self) ==
    << [request |-> Request("POST", <<"sys/mounts/">> \o self.mount_point),
        field   |-> "mounts"],
       [request |-> Request("PUT", <<"sys/mounts/">> \o self.mount_point \o <<"/tune">>),
        field   |-> "tuned"],
       [request |-> Request("PUT", self.mount_point \o <<"/root/generate/internal">>),
        field   |-> "roots"],
       [request |-> Request("PUT", self.mount_point \o <<"/roles/">> \o role),
        field   |-> "roles"] >>

\* the server refuses to mount a path that is mounted
Refuses(r, self, write) ==
    write.field = "mounts" /\ (self.mount_point \o <<"/">>) \in r.mounts

Applied(r, self, write) ==
    [r EXCEPT ![write.field] = @ \cup {self.mount_point \o <<"/">>}]

\* the caller has no call in flight
Idle == [op |-> "idle"]

\* setup() whose failing write is swallowed: the next write is sent
setup_write_keep_going(self, r, frame, fails) ==
    With(SetupWrites(self)[frame.i], LAMBDA write :
      With(Append(frame.made, write.request), LAMBDA made :
        IF fails \/ Refuses(r, self, write)
        THEN IF frame.i < Len(SetupWrites(self))
             THEN [out |-> Ok("running"), remote |-> r, requests |-> made,
                   frame |-> [op |-> "setup", i |-> frame.i + 1, made |-> made]]
             ELSE [out |-> Raise("VaultError", write.request.path),
                   remote |-> r, requests |-> made, frame |-> Idle]
        ELSE IF frame.i < Len(SetupWrites(self))
        THEN [out |-> Ok("running"), remote |-> Applied(r, self, write), requests |-> made,
              frame |-> [op |-> "setup", i |-> frame.i + 1, made |-> made]]
        ELSE [out |-> Ok("None"), remote |-> Applied(r, self, write), requests |-> made,
              frame |-> Idle]))

\* setup() sends its write number frame.i, which fails on the wire or not:
\* the outcome, the server after it, and the frame of the call (Idle when
\* it has returned or raised)
setup_write(self, r, frame, fails) ==
    With(SetupWrites(self)[frame.i], LAMBDA write :
      With(Append(frame.made, write.request), LAMBDA made :
        IF fails \/ Refuses(r, self, write)
        THEN [out |-> Raise("VaultError", write.request.path),
              remote |-> r, requests |-> made, frame |-> Idle]
        ELSE IF frame.i < Len(SetupWrites(self))
        THEN [out |-> Ok("running"), remote |-> Applied(r, self, write), requests |-> made,
              frame |-> [op |-> "setup", i |-> frame.i + 1, made |-> made]]
        ELSE [out |-> Ok("None"), remote |-> Applied(r, self, write), requests |-> made,
              frame |-> Idle]))

(***************************************************************************)
(* The Vault driver as a state machine                                     *)
(***************************************************************************)
\* the threads that share the instance (threadsafe = True)
Callers == {"A", "B"}

InitVault ==
    /\ args \in [url : Urls, mount_point : MountPoints]
    /\ remote \in Servers
    /\ requests = <<>>
    /\ backend = NoInstance
    /\ result = NoResult
    /\ pending = [c \in Callers |-> Idle]
    /\ env = <<>> /\ cnf = <<>> /\ files = <<>> /\ runs = <<>> /\ issued = {}
    /\ value = <<>> /\ defaults = <<>> /\ gen = <<>>

\* backend = Backend(url, token, mount_point, role)
VaultConstruct ==
    /\ backend = NoInstance /\ result = NoResult
    /\ args \in [url : Urls, mount_point : MountPoints]
    /\ \E made \in {Backend_init(args, remote)} :
         /\ result' = Call("Backend.__init__", made.out)
         /\ backend' = IF made.out.status = "ok" THEN made.self ELSE NoInstance
         /\ requests' = made.requests
    /\ UNCHANGED <<env, cnf, files, runs, issued, args, remote, value, defaults,
                   pending, gen>>

\* caller c enters validate_setup()
ValidateSetup(c) ==
    /\ backend.driver = "vault"
    /\ pending[c] = Idle
    /\ pending' = [pending EXCEPT ![c] = [op |-> "validate_setup"]]
    /\ UNCHANGED <<backend, result, env, cnf, files, runs, issued, args, remote,
                   requests, value, defaults, gen>>

\* c's validate_setup() lists the secret backends and returns or raises
ValidateSetupReturn(c) ==
    /\ pending[c].op = "validate_setup"
    /\ \E done \in {validate_setup(backend, remote)} :
         /\ result' = Call("validate_setup", done.out)
         /\ requests' = done.requests
    /\ pending' = [pending EXCEPT ![c] = Idle]
    /\ UNCHANGED <<backend, env, cnf, files, runs, issued, args, remote,
                   value, defaults, gen>>

\* caller c enters setup(...)
Setup(c) ==
    /\ backend.driver = "vault"
    /\ pending[c] = Idle
    /\ pending' = [pending EXCEPT ![c] = [op |-> "setup", i |-> 1, made |-> <<>>]]
    /\ UNCHANGED <<backend, result, env, cnf, files, runs, issued, args, remote,
                   requests, value, defaults, gen>>

\* c's setup() sends its next write
SetupWrite(c) ==
    /\ pending[c].op = "setup"
    /\ \E fails \in BOOLEAN :
         \E step \in {setup_write(backend, remote, pending[c], fails)} :
           /\ pending' = [pending EXCEPT ![c] = step.frame]
           /\ remote' = step.remote
           /\ IF step.frame = Idle
              THEN result' = Call("setup", step.out) /\ requests' = step.requests
              ELSE UNCHANGED <<result, requests>>
    /\ UNCHANGED <<backend, env, cnf, files, runs, issued, args, value, defaults, gen>>

NextVault ==
    \/ VaultConstruct
    \/ \E c \in Callers : ValidateSetup(c)
    \/ \E c \in Callers : ValidateSetupReturn(c)
    \/ \E c \in Callers : Setup(c)
    \/ \E c \in Callers : SetupWrite(c)

SpecVault == InitVault /\ [][NextVault]_vars

(***************************************************************************)
(* Claims about the Vault driver                                           *)
(***************************************************************************)
\* the configured mount point, as given at construction, without its slash
ConfiguredMount ==
    IF EndsWith(args.mount_point, <<"/">>)
    THEN SubSeq(args.mount_point, 1, Len(args.mount_point) - 1)
    ELSE args.mount_point

\* caller c's validate_setup() returns or raises in this step
C6_Decision(c) ==
    (pending[c].op = "validate_setup" /\ pending'[c] = Idle) =>
        /\ result'.op = "validate_setup"
        /\ (result'.status = "raised" /\ result'.exc = "ValueError")
              <=> (ConfiguredMount \o <<"/">>) \in remote.mounts
        /\ result'.status = "ok" <=> (ConfiguredMount \o <<"/">>) \notin remote.mounts
        /\ \A i \in DOMAIN requests' : requests'[i].method = "GET"
        /\ remote' = remote
        /\ backend' = backend

\* C6: validate_setup fails with the conflict error (a ValueError) exactly
\* when the configured mount point, given with or without a trailing slash,
\* is among the listed secret backends, and returns otherwise; it sends no
\* write and changes neither the server nor the instance.
C6_ValidateSetupDecides == [][\A c \in Callers : C6_Decision(c)]_vars

\* the mount point was given as pki/, pki/ is mounted, validate_setup raised
C6_Witness ==
    /\ result.op = "validate_setup" /\ result.status = "raised"
    /\ args.mount_point = <<"p", "k", "i", "/">>

\* C7: construction yields a Ready instance or fails with BackendError: a URL
\* that starts with neither http:// nor https:// fails before any request; a
\* network failure of the probe and a "not authenticated" answer are each
\* remapped to a BackendError; no other exception leaves the constructor.
C7_ConstructionReadyOrBackendError ==
    (result.op = "Backend.__init__") =>
        LET okUrl == StartsWith(args.url, http_prefix) \/ StartsWith(args.url, https_prefix)
        IN /\ ~okUrl =>
                /\ result.status = "raised" /\ result.exc = "BackendError"
                /\ result.detail = "URL needs to start with http:// or https://"
                /\ requests = <<>>
           /\ (okUrl /\ ~remote.reachable) =>
                /\ result.status = "raised" /\ result.exc = "BackendError"
                /\ result.detail =
                     "Could not connect to Vault server. Check address and credentials!"
           /\ (okUrl /\ remote.reachable /\ ~remote.authenticated) =>
                /\ result.status = "raised" /\ result.exc = "BackendError"
                /\ result.detail = "Invalid connection credentials!"
           /\ (okUrl /\ remote.reachable /\ remote.authenticated) =>
                (result.status = "ok" /\ backend.driver = "vault")
           /\ result.status = "raised" =>
                (result.exc = "BackendError" /\ backend = NoInstance)

\* the probe failed on the network and the constructor raised BackendError
C7_Witness ==
    /\ result.op = "Backend.__init__"
    /\ StartsWith(args.url, https_prefix) /\ ~remote.reachable
    /\ result.status = "raised" /\ result.exc = "BackendError"

\* the writes the claim names, in its order: the request of each and the
\* server collection its effect shows in
ClaimedSetupSteps(mount) ==
    << [request |-> Request("POST", <<"sys/mounts/">> \o mount), field |-> "mounts"],
       [request |-> Request("PUT", <<"sys/mounts/">> \o mount \o <<"/tune">>),
        field   |-> "tuned"],
       [request |-> Request("PUT", mount \o <<"/root/generate/internal">>),
        field   |-> "roots"],
       [request |-> Request("PUT", mount \o <<"/roles/">> \o role), field |-> "roles"] >>

\* the requests of the first n steps
ClaimedRequests(mount, n) == [j \in 1..n |-> ClaimedSetupSteps(mount)[j].request]

\* caller c's setup() sends its write number i in this step: it is the
\* claimed step i, sent after the steps before it went through; either it
\* takes effect and the call goes on to step i + 1 (returns, after the
\* fourth), or it fails, the call raises at once and the server stays as the
\* earlier steps left it
C11_SetupStep(c) ==
    (pending[c].op = "setup" /\ pending'[c] # pending[c]) =>
        LET steps == ClaimedSetupSteps(backend.mount_point)
            path  == backend.mount_point \o <<"/">>
            i     == pending[c].i
        IN /\ i \in 1..4
           /\ pending[c].made = ClaimedRequests(backend.mount_point, i - 1)
           /\ \A j \in 1..(i - 1) : path \in remote[steps[j].field]
           /\ \/ /\ remote' = [remote EXCEPT ![steps[i].field] = @ \cup {path}]
                 /\ remote' # remote
                 /\ IF i < 4
                    THEN /\ pending'[c] = [op |-> "setup", i |-> i + 1,
                                           made |-> ClaimedRequests(backend.mount_point, i)]
                         /\ result' = result
                    ELSE /\ pending'[c] = Idle
                         /\ result'.op = "setup" /\ result'.status = "ok"
                         /\ requests' = ClaimedRequests(backend.mount_point, 4)
              \/ /\ remote' = remote
                 /\ pending'[c] = Idle
                 /\ result'.op = "setup" /\ result'.status = "raised"
                 /\ requests' = ClaimedRequests(backend.mount_point, i)

\* C11: setup sends its four writes in order (enable, tune, generate root,
\* create role), each only after the earlier ones succeeded; when step k
\* fails setup fails, later steps are never sent, and the effects of the
\* steps before k stay applied on the server.
C11_SetupWritesInOrder == [][\A c \in Callers : C11_SetupStep(c)]_vars

\* setup failed at its third write: the engine is mounted and tuned, no root
\* certificate and no role exist
C11_Witness ==
    /\ result.op = "setup" /\ result.status = "raised"
    /\ Len(requests) = 3
    /\ (backend.mount_point \o <<"/">>) \in remote.mounts \cap remote.tuned
    /\ (backend.mount_point \o <<"/">>) \notin remote.roots \cup remote.roles

(***************************************************************************)
(* Claims about the parser                                                 *)
(***************************************************************************)
\* the first reference in v: text before it, its name, text after it
HasReference(v, pre, name, post) ==
    /\ Find(pre, <<"$">>) = -1
    /\ name # <<>> /\ \A i \in 1..Len(name) : name[i] \in WordChars
    /\ \/ v = pre \o <<"$">> \o name \o post
          /\ (post = <<>> \/ post[1] \notin WordChars)
       \/ v = pre \o <<"$", "{">> \o name \o <<"}">> \o post

\* C9: a value holding a $name or ${name} reference whose name is in the
\* defaults mapping resolves to the text before the reference, then
\* defaults[name], then the text after it; a value without $ is unchanged.
C9_ReferenceReplacedInPlace ==
    (result.op = "before_get") =>
        /\ Find(value, <<"$">>) = -1 => result = Returned("before_get", value)
        /\ \A i \in 0..Len(value), j \in 0..Len(value), k \in 0..Len(value) :
              (i <= j /\ j <= k
                 /\ HasReference(value, SliceTo(value, i),
                                 SubSeq(value, j + 1, k),
                                 SliceFrom(value, IF j = i + 1 THEN k ELSE k + 1))
                 /\ j \in {i + 1, i + 2}
                 /\ SubSeq(value, j + 1, k) \in DOMAIN defaults)
              => result = Returned("before_get",
                                   SliceTo(value, i)
                                     \o defaults[SubSeq(value, j + 1, k)]
                                     \o SliceFrom(value, IF j = i + 1 THEN k ELSE k + 1))

\* the first $ of v is not followed by an identifier: it ends the value, or a
\* non-word character follows it, or "{" and then no word character
DollarWithoutIdentifier(v) ==
    LET ind == Find(v, <<"$">>)
        t   == SliceFrom(v, ind)
    IN /\ ind # -1
       /\ \/ Len(t) = 1
          \/ Len(t) >= 2 /\ t[2] \notin WordChars \cup {"{"}
          \/ Len(t) >= 2 /\ t[2] = "{" /\ (Len(t) = 2 \/ t[3] \notin WordChars)

\* C10: a value whose $ is not followed by a valid identifier fails with
\* InterpolationSyntaxError; it is neither resolved nor reported as a missing
\* variable.
C10_BadReferenceIsSyntaxError ==
    (result.op = "before_get" /\ DollarWithoutIdentifier(value))
        => (result.status = "raised" /\ result.exc = "InterpolationSyntaxError")

====
